---- MODULE Spec2Model ----
(***************************************************************************)
(* Model of the ROI calculator of src/src/pages/Index.tsx (the variant     *)
(* with text inputs, lines 25-382): the input sanitizer (parseNum,         *)
(* clampInt, clampMin), the derived results computed by useMemo, and the   *)
(* onChange / onBlur handlers of the five editable fields.                 *)
(*                                                                         *)
(* Numbers.  A JavaScript number is modelled as a record                   *)
(*     [k, n, d, e]                                                        *)
(* k = "fin": the value (n / d) * 10^e, with d = 1 for everything but the  *)
(*            result of a division; k = "inf": n is the sign; k = "nan".   *)
(* The arithmetic is exact decimal arithmetic (no binary rounding), with   *)
(* the overflow of a double to Infinity above about 1.8 * 10^308.          *)
(* Text is a sequence of one-character strings.                            *)
(***************************************************************************)
EXTENDS Integers, Sequences, FiniteSets, TLC

VARIABLES form, derived, last, raw, sanField, sanOut

vars == <<form, derived, last, raw, sanField, sanOut>>

(* ---------------------------------------------------------------------- *)
(* Bounds of the model                                                     *)
(* ---------------------------------------------------------------------- *)

\* Longest text drawn for the sanitizer specification.
MaxLen == 4

\* Largest projection horizon the horizon-independence check ranges over.
MaxHorizon == 3

(* ---------------------------------------------------------------------- *)
(* JavaScript numbers                                                      *)
(* ---------------------------------------------------------------------- *)

\* Decimal exponent of Number.MAX_VALUE (1.7976931348623157e308).
MaxExp10 == 308

\* First two significant digits from which a value of exponent MaxExp10
\* is beyond Number.MAX_VALUE.
MaxLead2 == 18

\* Exponent gap from which the smaller operand of a sum is below half an
\* ulp of the larger one (2^53 < 10^17) and the sum is the larger operand.
AbsorbGap == 17

NaN == [k |-> "nan", n |-> 0, d |-> 1, e |-> 0]
Inf(s) == [k |-> "inf", n |-> s, d |-> 1, e |-> 0]
Infinity == Inf(1)
Undefined == [k |-> "undefined", n |-> 0, d |-> 1, e |-> 0]

Abs(i) == IF i < 0 THEN 0 - i ELSE i
Sign(i) == IF i < 0 THEN 0 - 1 ELSE IF i = 0 THEN 0 ELSE 1

\* the element of a one-element set; { F(x) : x \in {e} } is F(e) with e
\* computed once
Only(S) == CHOOSE x \in S : TRUE

Pow10(k) == IF k <= 0 THEN 1 ELSE 10 ^ k

\* number of decimal digits of a natural number (0 has none)
NumDigits(i) ==
  IF i <= 0 THEN 0
  ELSE IF i < 10 THEN 1
  ELSE IF i < 100 THEN 2
  ELSE IF i < 1000 THEN 3
  ELSE IF i < 10000 THEN 4
  ELSE IF i < 100000 THEN 5
  ELSE IF i < 1000000 THEN 6
  ELSE IF i < 10000000 THEN 7
  ELSE IF i < 100000000 THEN 8
  ELSE IF i < 1000000000 THEN 9
  ELSE 10

\* <<n, e>> with the trailing decimal zeros of n moved into the exponent
StripZeros(n, e) ==
  IF n = 0 THEN <<0, 0>>
  ELSE LET m == Abs(n)
           z == CHOOSE k \in 0..9 :
                  /\ m % Pow10(k) = 0
                  /\ k = 9 \/ m % Pow10(k + 1) # 0
       IN <<Sign(n) * (m \div Pow10(z)), e + z>>

\* the first two significant digits of a positive integer (5 reads as 50)
Lead2(i) ==
  IF NumDigits(i) >= 2 THEN i \div Pow10(NumDigits(i) - 2) ELSE i * 10

\* n * 10^e is beyond the largest finite double
Overflows(n, e) ==
  /\ n # 0
  /\ LET x == NumDigits(Abs(n)) + e - 1
     IN \/ x > MaxExp10
        \/ x = MaxExp10 /\ Lead2(Abs(n)) >= MaxLead2

\* the double n * 10^e
Fin(n, e) ==
  LET s == StripZeros(n, e)
  IN IF Overflows(s[1], s[2]) THEN Inf(Sign(n))
     ELSE [k |-> "fin", n |-> s[1], d |-> 1, e |-> s[2]]

Num(i) == Fin(i, 0)
Zero == Num(0)

IsFin(a) == a.k = "fin"
IsNaN(a) == a.k = "nan"
IsInf(a) == a.k = "inf"

\* Number.isFinite
NumberIsFinite(a) == a.k = "fin"

\* decimal exponent of the leading digit of a non-zero finite value
SciExp(a) == NumDigits(Abs(a.n)) + a.e - 1

\* -1, 0, 1 as a < b, a = b, a > b, for finite a and b with d = 1
CmpFin(a, b) ==
  IF Sign(a.n) # Sign(b.n) THEN (IF Sign(a.n) < Sign(b.n) THEN 0 - 1 ELSE 1)
  ELSE IF a.n = 0 THEN 0
  ELSE IF SciExp(a) # SciExp(b)
       THEN (IF SciExp(a) < SciExp(b) THEN 0 - Sign(a.n) ELSE Sign(a.n))
  ELSE LET m == IF a.e < b.e THEN a.e ELSE b.e
           x == a.n * Pow10(a.e - m)
           y == b.n * Pow10(b.e - m)
       IN IF x < y THEN 0 - 1 ELSE IF x = y THEN 0 ELSE 1

\* a < b on numbers (false when either is NaN)
Lt(a, b) ==
  IF IsNaN(a) \/ IsNaN(b) THEN FALSE
  ELSE IF IsInf(a) THEN a.n < 0 /\ ~(IsInf(b) /\ b.n < 0)
  ELSE IF IsInf(b) THEN b.n > 0
  ELSE CmpFin(a, b) < 0

Gt(a, b) == Lt(b, a)
Le(a, b) == ~IsNaN(a) /\ ~IsNaN(b) /\ ~Lt(b, a)

\* Math.max of two numbers
MathMax(a, b) ==
  IF IsNaN(a) \/ IsNaN(b) THEN NaN
  ELSE IF Lt(a, b) THEN b ELSE a

Neg(a) ==
  IF IsNaN(a) THEN NaN
  ELSE IF IsInf(a) THEN Inf(0 - a.n)
  ELSE [a EXCEPT !.n = 0 - a.n]

\* a + b (operands with d = 1)
Add(a, b) ==
  IF IsNaN(a) \/ IsNaN(b) THEN NaN
  ELSE IF IsInf(a) THEN (IF IsInf(b) /\ b.n # a.n THEN NaN ELSE a)
  ELSE IF IsInf(b) THEN b
  ELSE IF a.n = 0 THEN b
  ELSE IF b.n = 0 THEN a
  ELSE IF SciExp(a) - SciExp(b) >= AbsorbGap THEN a
  ELSE IF SciExp(b) - SciExp(a) >= AbsorbGap THEN b
  ELSE LET m == IF a.e < b.e THEN a.e ELSE b.e
       IN Fin(a.n * Pow10(a.e - m) + b.n * Pow10(b.e - m), m)

Sub(a, b) == Add(a, Neg(b))

\* a * b (operands with d = 1)
Mul(a, b) ==
  IF IsNaN(a) \/ IsNaN(b) THEN NaN
  ELSE IF IsInf(a) \/ IsInf(b)
       THEN (IF a.n = 0 \/ b.n = 0 THEN NaN ELSE Inf(Sign(a.n) * Sign(b.n)))
  ELSE Fin(a.n * b.n, a.e + b.e)

\* a / b (operands with d = 1); the quotient is kept as a fraction
Div(a, b) ==
  IF IsNaN(a) \/ IsNaN(b) THEN NaN
  ELSE IF IsInf(a) THEN (IF IsInf(b) THEN NaN
                         ELSE Inf(a.n * (IF b.n < 0 THEN 0 - 1 ELSE 1)))
  ELSE IF IsInf(b) THEN Zero
  ELSE IF b.n = 0 THEN (IF a.n = 0 THEN NaN ELSE Inf(Sign(a.n)))
  ELSE IF a.n = 0 THEN Zero
  ELSE [k |-> "fin", n |-> Sign(b.n) * a.n, d |-> Abs(b.n), e |-> a.e - b.e]

\* Math.floor
MathFloor(a) ==
  IF ~IsFin(a) THEN a
  ELSE IF a.e >= 0 THEN a
  ELSE IF NumDigits(Abs(a.n)) <= 0 - a.e
       THEN (IF a.n < 0 THEN Num(0 - 1) ELSE Zero)
  ELSE LET p == Pow10(0 - a.e)
           q == Abs(a.n) \div p
       IN IF a.n > 0 THEN Num(q) ELSE Num(0 - (q + 1))

Half == Fin(5, 0 - 1)

\* Math.round: the nearest integer, a tie going up
MathRound(a) == IF ~IsFin(a) THEN a ELSE MathFloor(Add(a, Half))

\* the value is a whole number
IsInteger(a) == IsFin(a) /\ a.d = 1 /\ a.e >= 0

(* ---------------------------------------------------------------------- *)
(* Text and the conversions between text and numbers                      *)
(* ---------------------------------------------------------------------- *)

DigitChars == <<"0", "1", "2", "3", "4", "5", "6", "7", "8", "9">>
DigitSet == {DigitChars[i] : i \in 1..10}
DigitVal(c) == (CHOOSE i \in 1..10 : DigitChars[i] = c) - 1

WhiteSpace == {" "}
InfinityText == <<"I", "n", "f", "i", "n", "i", "t", "y">>
NaNText == <<"N", "a", "N">>

AllDigits(s) == \A i \in 1..Len(s) : s[i] \in DigitSet

RECURSIVE DigitsVal(_)
\* the natural number a sequence of digits denotes (the empty one: 0)
DigitsVal(s) ==
  IF s = <<>> THEN 0
  ELSE 10 * DigitsVal(SubSeq(s, 1, Len(s) - 1)) + DigitVal(s[Len(s)])

RECURSIVE DigitsOf(_)
\* the decimal digits of a positive integer
DigitsOf(i) ==
  IF i < 10 THEN <<DigitChars[i + 1]>>
  ELSE DigitsOf(i \div 10) \o <<DigitChars[(i % 10) + 1]>>

Zeros(k) == [i \in 1..k |-> "0"]

\* index of the first element of s that is in the set cs, 0 if there is none
FirstIn(s, cs) ==
  IF \E i \in 1..Len(s) : s[i] \in cs
  THEN CHOOSE i \in 1..Len(s) :
         s[i] \in cs /\ \A j \in 1..(i - 1) : s[j] \notin cs
  ELSE 0

RECURSIVE TrimLeft(_)
TrimLeft(s) ==
  IF s # <<>> /\ s[1] \in WhiteSpace THEN TrimLeft(Tail(s)) ELSE s

RECURSIVE TrimRight(_)
TrimRight(s) ==
  IF s # <<>> /\ s[Len(s)] \in WhiteSpace
  THEN TrimRight(SubSeq(s, 1, Len(s) - 1)) ELSE s

\* String.prototype.replace(",", "."): the first comma only
ReplaceComma(s) ==
  LET i == FirstIn(s, {","})
  IN IF i = 0 THEN s ELSE [s EXCEPT ![i] = "."]

\* Number(text): surrounding white space is dropped and the empty text is
\* 0; otherwise an optionally signed decimal literal (digits, a point,
\* an exponent part) or Infinity; anything else is NaN.  Texts with a
\* radix prefix (0x, 0o, 0b) are outside the modelled alphabet.
StringToNumber(s) ==
  LET t == TrimRight(TrimLeft(s))
  IN IF t = <<>> THEN Zero
     ELSE
       LET sg == IF t[1] = "-" THEN 0 - 1 ELSE 1
           body == IF t[1] \in {"+", "-"} THEN Tail(t) ELSE t
           ePos == FirstIn(body, {"e", "E"})
           mant == IF ePos = 0 THEN body ELSE SubSeq(body, 1, ePos - 1)
           expo == IF ePos = 0 THEN <<>>
                   ELSE SubSeq(body, ePos + 1, Len(body))
           dPos == FirstIn(mant, {"."})
           ip == IF dPos = 0 THEN mant ELSE SubSeq(mant, 1, dPos - 1)
           fp == IF dPos = 0 THEN <<>>
                 ELSE SubSeq(mant, dPos + 1, Len(mant))
           xs == IF expo # <<>> /\ expo[1] = "-" THEN 0 - 1 ELSE 1
           xd == IF expo # <<>> /\ expo[1] \in {"+", "-"}
                 THEN Tail(expo) ELSE expo
           okMant == AllDigits(ip) /\ AllDigits(fp) /\ Len(ip) + Len(fp) >= 1
           okExp == ePos = 0 \/ (xd # <<>> /\ AllDigits(xd))
       IN IF body = InfinityText THEN Inf(sg)
          ELSE IF ~(okMant /\ okExp) THEN NaN
          ELSE Fin(sg * DigitsVal(ip \o fp), xs * DigitsVal(xd) - Len(fp))

\* String(number) of a number with d = 1: plain decimal notation while the
\* decimal point lies within 21 digits, exponent notation beyond
NumberToString(a) ==
  IF IsNaN(a) THEN NaNText
  ELSE IF IsInf(a)
       THEN (IF a.n < 0 THEN <<"-">> \o InfinityText ELSE InfinityText)
  ELSE IF a.n = 0 THEN <<"0">>
  ELSE
    LET digs == DigitsOf(Abs(a.n))
        k == Len(digs)
        nn == k + a.e
        x == nn - 1
        pos ==
          IF k <= nn /\ nn <= 21 THEN digs \o Zeros(nn - k)
          ELSE IF 0 < nn /\ nn <= 21
               THEN SubSeq(digs, 1, nn) \o <<".">> \o SubSeq(digs, nn + 1, k)
          ELSE IF 0 - 6 < nn /\ nn <= 0
               THEN <<"0", ".">> \o Zeros(0 - nn) \o digs
          ELSE (IF k = 1 THEN digs
                ELSE <<digs[1], ".">> \o SubSeq(digs, 2, k))
               \o <<"e", IF x < 0 THEN "-" ELSE "+">> \o DigitsOf(Abs(x))
    IN IF a.n < 0 THEN <<"-">> \o pos ELSE pos

(* ---------------------------------------------------------------------- *)
(* Form values and the sanitizer                                           *)
(* ---------------------------------------------------------------------- *)

\* a field of RoiInputs holds a text or a number (number | string)
Str(s) == [t |-> "str", s |-> s, v |-> Zero]
NumV(x) == [t |-> "num", s |-> <<>>, v |-> x]
UndefinedV == [t |-> "undefined", s |-> <<>>, v |-> Zero]
EmptyText == Str(<<>>)

\* String(v)
ToText(v) == IF v.t = "str" THEN v.s ELSE NumberToString(v.v)

\* Allow Swedish comma, return number | undefined
parseNum(v) ==
  IF v = EmptyText \/ v.t = "undefined" THEN Undefined
  ELSE LET n == StringToNumber(ReplaceComma(ToText(v)))
       IN IF NumberIsFinite(n) THEN n ELSE Undefined

\* variant: clampInt without Math.floor
clampIntNoFloor(n, min) ==
  IF n = Undefined THEN Undefined ELSE MathMax(min, n)

clampInt(n, min) ==
  IF n = Undefined THEN Undefined ELSE MathMax(min, MathFloor(n))

clampMin(n, min) ==
  IF n = Undefined THEN Undefined ELSE MathMax(min, n)

Fields ==
  {"householdSize", "electricityPrice", "systemCost", "grant", "kwhPerPerson"}
Required == {"householdSize", "electricityPrice", "kwhPerPerson"}
IntFields == Fields \ {"electricityPrice"}

\* the minimum each field is clamped to
FieldMin(f) ==
  CASE f = "householdSize" -> Num(1)
    [] f = "electricityPrice" -> Fin(1, 0 - 1)
    [] f = "systemCost" -> Zero
    [] f = "grant" -> Zero
    [] f = "kwhPerPerson" -> Num(500)

\* the sanitized value of field f holding v, or Undefined
Sanitize(f, v) ==
  IF f = "electricityPrice" THEN clampMin(parseNum(v), FieldMin(f))
  ELSE clampInt(parseNum(v), FieldMin(f))

(* ---------------------------------------------------------------------- *)
(* The form and the derived results                                        *)
(* ---------------------------------------------------------------------- *)

defaultInputs ==
  [householdSize |-> NumV(Num(3)),
   electricityPrice |-> NumV(Fin(195, 0 - 2)),
   systemCost |-> NumV(Num(29000)),
   grant |-> NumV(Zero),
   maintenance |-> Zero,
   savingsRatio |-> Fin(66, 0 - 2),
   kwhPerPerson |-> NumV(Num(1000)),
   horizonYears |-> 15]

\* n ?? 0
OrZero(n) == IF n = Undefined THEN Zero ELSE n

\* variant: upfront without its floor at zero
UpfrontUnfloored(systemCost, grant) == Sub(systemCost, grant)

\* upfront, in both branches
Upfront(systemCost, grant) == MathMax(Sub(systemCost, grant), Zero)

\* variant: the guard branch with one point too few
GuardResultShort(fm, systemCost, grant) ==
  [annualHotWaterKwh |-> Zero,
   annualHotWaterCost |-> Zero,
   annualSavings |-> Zero,
   netAnnualSavings |-> Zero,
   upfront |-> MathMax(Sub(systemCost, grant), Zero),
   paybackYears |-> Infinity,
   data |-> [i \in 1..fm.horizonYears |-> [year |-> i - 1, value |-> Zero]],
   tenYearRoi |-> Zero]

\* the guard branch: safe zeros
GuardResult(fm, systemCost, grant) ==
  LET h == IF fm.horizonYears = 0 THEN 0 ELSE fm.horizonYears
  IN [annualHotWaterKwh |-> Zero,
      annualHotWaterCost |-> Zero,
      annualSavings |-> Zero,
      netAnnualSavings |-> Zero,
      upfront |-> Upfront(systemCost, grant),
      paybackYears |-> Infinity,
      data |-> [i \in 1..(h + 1) |-> [year |-> i - 1, value |-> Zero]],
      tenYearRoi |-> Zero]

RECURSIVE SeriesRoundedFeed(_, _, _, _)
\* variant: the rounded point fed back into the running total
SeriesRoundedFeed(y, horizonYears, cumulative, netAnnualSavings) ==
  IF y > horizonYears THEN <<>>
  ELSE Only({<<[year |-> y, value |-> c]>>
               \o SeriesRoundedFeed(y + 1, horizonYears, c, netAnnualSavings) :
             c \in {MathRound(IF y > 0 THEN Add(cumulative, netAnnualSavings)
                              ELSE cumulative)}})

RECURSIVE SeriesFromYearZero(_, _, _, _)
\* variant: the savings added in year 0 too
SeriesFromYearZero(y, horizonYears, cumulative, netAnnualSavings) ==
  IF y > horizonYears THEN <<>>
  ELSE Only({<<[year |-> y, value |-> MathRound(c)]>>
               \o SeriesFromYearZero(y + 1, horizonYears, c, netAnnualSavings) :
             c \in {Add(cumulative, netAnnualSavings)}})

RECURSIVE SeriesStopsEarly(_, _, _, _)
\* variant: the last year left out (length horizonYears, not horizonYears + 1)
SeriesStopsEarly(y, horizonYears, cumulative, netAnnualSavings) ==
  IF y >= horizonYears THEN <<>>
  ELSE Only({<<[year |-> y, value |-> MathRound(c)]>>
               \o SeriesStopsEarly(y + 1, horizonYears, c, netAnnualSavings) :
             c \in {IF y > 0 THEN Add(cumulative, netAnnualSavings)
                    ELSE cumulative}})

RECURSIVE Series(_, _, _, _)
\* years.map(...) from year y on: cumulative grows by netAnnualSavings from
\* year 1 on, and each point is the rounded cumulative
Series(y, horizonYears, cumulative, netAnnualSavings) ==
  IF y > horizonYears THEN <<>>
  ELSE Only({<<[year |-> y, value |-> MathRound(c)]>>
               \o Series(y + 1, horizonYears, c, netAnnualSavings) :
             c \in {IF y > 0 THEN Add(cumulative, netAnnualSavings)
                    ELSE cumulative}})

\* variant: the division upside down
PaybackInverted(upfront, netAnnualSavings) ==
  IF Gt(netAnnualSavings, Zero) THEN Div(netAnnualSavings, upfront)
  ELSE Infinity

\* paybackYears of the main branch
Payback(upfront, netAnnualSavings) ==
  IF Gt(netAnnualSavings, Zero) THEN Div(upfront, netAnnualSavings)
  ELSE Infinity

\* variant: the division without its upfront > 0 test
TenYearRoiUnguarded(upfront, netAnnualSavings) ==
  Div(Sub(Mul(netAnnualSavings, Num(10)), upfront), upfront)

\* variant: the return taken over the 15 years of the default horizon
TenYearRoiOverHorizon(upfront, netAnnualSavings) ==
  IF Gt(upfront, Zero)
  THEN Div(Sub(Mul(netAnnualSavings, Num(15)), upfront), upfront)
  ELSE Zero

\* tenYearRoi of the main branch
TenYearRoi(upfront, netAnnualSavings) ==
  IF Gt(upfront, Zero)
  THEN Div(Sub(Mul(netAnnualSavings, Num(10)), upfront), upfront)
  ELSE Zero

\* the percentage shown for tenYearRoi: Math.round(tenYearRoi * 100), the
\* quotient n / d * 10^e rounded to the nearest whole percent, a tie going up
RoiPercent(q) ==
  IF ~IsFin(q) THEN q
  ELSE LET s == q.e + 2
           num == IF s >= 0 THEN q.n * Pow10(s) ELSE q.n
           den == IF s >= 0 THEN q.d ELSE q.d * Pow10(0 - s)
       IN Num((2 * num + den) \div (2 * den))

\* netAnnualSavings of the main branch
NetSavings(annualSavings, maintenance) ==
  MathMax(Sub(annualSavings, maintenance), Zero)

\* the main branch
MainResult(fm, householdSize, electricityPrice, systemCost, grant, kwhPerPerson) ==
  LET annualHotWaterKwh == Mul(householdSize, kwhPerPerson)
      annualHotWaterCost == Mul(annualHotWaterKwh, electricityPrice)
      annualSavings == Mul(annualHotWaterCost, fm.savingsRatio)
  IN Only({[annualHotWaterKwh |-> annualHotWaterKwh,
            annualHotWaterCost |-> annualHotWaterCost,
            annualSavings |-> annualSavings,
            netAnnualSavings |-> netAnnualSavings,
            upfront |-> upfront,
            paybackYears |-> Payback(upfront, netAnnualSavings),
            data |-> Series(0, fm.horizonYears, Neg(upfront),
                            netAnnualSavings),
            tenYearRoi |-> TenYearRoi(upfront, netAnnualSavings)] :
           netAnnualSavings \in {NetSavings(annualSavings, fm.maintenance)},
           upfront \in {Upfront(systemCost, grant)}})

\* the two branches of the useMemo callback, on the sanitized inputs
Branch(fm, householdSize, electricityPrice, systemCost, grant, kwhPerPerson) ==
  IF \/ householdSize = Undefined
     \/ electricityPrice = Undefined
     \/ kwhPerPerson = Undefined
  THEN GuardResult(fm, systemCost, grant)
  ELSE MainResult(fm, householdSize, electricityPrice, systemCost, grant,
                  kwhPerPerson)

\* the useMemo callback: the derived results of a form
Derive(fm) ==
  Only({Branch(fm, householdSize, electricityPrice, systemCost, grant,
               kwhPerPerson) :
        householdSize \in {clampInt(parseNum(fm.householdSize), Num(1))},
        electricityPrice \in {clampMin(parseNum(fm.electricityPrice),
                                       Fin(1, 0 - 1))},
        systemCost \in {OrZero(clampInt(parseNum(fm.systemCost), Zero))},
        grant \in {OrZero(clampInt(parseNum(fm.grant), Zero))},
        kwhPerPerson \in {clampInt(parseNum(fm.kwhPerPerson), Num(500))}})

(* ---------------------------------------------------------------------- *)
(* Events                                                                  *)
(* ---------------------------------------------------------------------- *)

\* the texts typed into each field
Typed(f) ==
  CASE f = "householdSize" -> {<<" ">>, <<"1", "e", "3", "0", "8">>}
    [] f = "electricityPrice" -> {InfinityText}
    [] f = "systemCost" -> {<<"a">>}
    [] f = "grant" -> {<<"2", "9", "0", "0", "0">>, <<"-", "5">>}
    [] f = "kwhPerPerson" -> {<<>>, <<"5", "0", "1">>}

\* characters of the texts handed to the sanitizer on its own
Chars == {"1", "5", "9", ",", ".", "-", " ", "e"}
Texts(len) == UNION {[1..n -> Chars] : n \in 0..len}

\* last: the field whose onBlur ran as the latest event, NoEvent otherwise
NoEvent == "none"

\* onChange of field f: the raw text is stored as typed
OnChange(f, text) ==
  /\ form' = [form EXCEPT ![f] = Str(text)]
  /\ derived' = Derive(form')
  /\ last' = NoEvent
  /\ UNCHANGED <<raw, sanField, sanOut>>

\* variant: onBlur falling back to the field minimum
BlurValueFallback(f, n) ==
  IF n = Undefined THEN NumV(FieldMin(f)) ELSE NumV(n)

\* what onBlur stores for a sanitized value n
BlurValue(f, n) == IF n = Undefined THEN EmptyText ELSE NumV(n)

\* onBlur of field f: the sanitized value is stored
OnBlur(f) ==
  /\ form' = [form EXCEPT ![f] = BlurValue(f, Sanitize(f, form[f]))]
  /\ derived' = Derive(form')
  /\ last' = f
  /\ UNCHANGED <<raw, sanField, sanOut>>

Init ==
  /\ form = defaultInputs
  /\ derived = Derive(defaultInputs)
  /\ last = NoEvent
  /\ raw = <<>>
  /\ sanField = "none"
  /\ sanOut = Undefined

Next ==
  \E f \in Fields :
    \/ \E text \in Typed(f) : OnChange(f, text)
    \/ OnBlur(f)

Spec == Init /\ [][Next]_vars

\* The sanitizer on its own: any text of the alphabet, each field's rule.
InitSan ==
  /\ form = defaultInputs
  /\ derived = Derive(defaultInputs)
  /\ last = NoEvent
  /\ raw \in Texts(MaxLen)
  /\ sanField = "none"
  /\ sanOut = Undefined

SanitizeRaw(f) ==
  /\ sanField' = f
  /\ sanOut' = Sanitize(f, Str(raw))
  /\ UNCHANGED <<form, derived, last, raw>>

NextSan == \E f \in Fields : SanitizeRaw(f)

SpecSan == InitSan /\ [][NextSan]_vars

(* ---------------------------------------------------------------------- *)
(* Properties                                                              *)
(* ---------------------------------------------------------------------- *)

\* what the sanitizer makes of the current value of field f
Sanitized(f) == Sanitize(f, form[f])
HoldsNoValue(f) == Sanitized(f) = Undefined

\* the guard of the derived results fires / does not fire
GuardCase == \E f \in Required : HoldsNoValue(f)
MainBranch == ~GuardCase

\* the sanitized systemCost and grant, an invalid one counted as 0
CostOrZero == OrZero(Sanitized("systemCost"))
GrantOrZero == OrZero(Sanitized("grant"))

\* max(systemCost - grant, 0), by cases
ExpectedUpfront ==
  IF Lt(CostOrZero, GrantOrZero) THEN Zero ELSE Sub(CostOrZero, GrantOrZero)

\* the point of year y in the series (data is indexed from 1)
Point(y) == derived.data[y + 1]
Years == 1..form.horizonYears

\* q is the quotient a / b of a finite a and a finite non-zero b
IsQuotient(q, a, b) ==
  /\ IsFin(q)
  /\ Fin(q.n * b.n, q.e + b.e) = Fin(a.n * q.d, a.e)

\* the degenerate record of the guard branch
Degenerate ==
  [annualHotWaterKwh |-> Zero,
   annualHotWaterCost |-> Zero,
   annualSavings |-> Zero,
   netAnnualSavings |-> Zero,
   upfront |-> ExpectedUpfront,
   paybackYears |-> Infinity,
   data |-> [i \in 1..(form.horizonYears + 1) |->
               [year |-> i - 1, value |-> Zero]],
   tenYearRoi |-> Zero]

\* C1 (as stated): a field that has just been blurred never holds "no
\* value": an empty or unparsable raw value has been replaced by the
\* field minimum.
C1_BlurredFieldHoldsValue ==
  last \in Fields => ~HoldsNoValue(last) /\ form[last].t = "num"

\* C1 (amended): on blur, a field whose raw value is empty or does not
\* parse to a finite number is left holding the empty text (still "no
\* value", no fallback to the minimum); a field whose raw value parses is
\* replaced by a number that is at least the field minimum, and whole for
\* the integer fields.
C1_BlurKeepsNoValueOrClamps ==
  [][\A f \in Fields :
       last' = f =>
         IF parseNum(form[f]) = Undefined
         THEN form'[f] = EmptyText
         ELSE /\ form'[f].t = "num"
              /\ Le(FieldMin(f), form'[f].v)
              /\ f \in IntFields => IsInteger(form'[f].v)]_vars

\* Scenario C after the blur: kwhPerPerson, raw "", still holds "".
C1_Witness ==
  /\ last = "kwhPerPerson"
  /\ form.kwhPerPerson = EmptyText
  /\ HoldsNoValue("kwhPerPerson")

\* C2 (as stated): in the main branch every point is the previous,
\* already rounded, point plus netAnnualSavings, rounded.
C2_PointFromRoundedPrevious ==
  MainBranch =>
    \A i \in Years :
      Point(i).value =
        MathRound(Add(Point(i - 1).value, derived.netAnnualSavings))

\* C2 (amended): in the main branch the point of year i is the rounding of
\* the unrounded running total -upfront + i * netAnnualSavings; the rounded
\* points are never fed back into the total.
C2_PointIsRoundedRunningTotal ==
  MainBranch =>
    \A i \in Years :
      Point(i).value =
        MathRound(Add(Neg(derived.upfront),
                      Mul(Num(i), derived.netAnnualSavings)))

\* a main-branch state whose netAnnualSavings has a fraction and where some
\* point differs from the rounding of its rounded predecessor plus savings
C2_Witness ==
  /\ MainBranch
  /\ IsFin(derived.netAnnualSavings)
  /\ ~IsInteger(derived.netAnnualSavings)
  /\ \E i \in Years :
       Point(i).value #
         MathRound(Add(Point(i - 1).value, derived.netAnnualSavings))

\* C3 (as stated): in every state the first point is year 0 with value
\* -upfront.
C3_FirstPointIsMinusUpfront ==
  /\ Point(0).year = 0
  /\ Point(0).value = Neg(derived.upfront)

\* C3 (amended): the first point is year 0 in every state; its value is
\* -upfront whenever the main branch runs, and 0 in the guard branch
\* (whatever upfront is).
C3_FirstPointByBranch ==
  /\ Point(0).year = 0
  /\ MainBranch => Point(0).value = Neg(derived.upfront)
  /\ GuardCase => Point(0).value = Zero

\* an edited main-branch state with a positive upfront
C3_Witness ==
  /\ MainBranch
  /\ form.kwhPerPerson = NumV(Num(501))
  /\ derived.upfront = Num(29000)
  /\ Point(0).value = Num(0 - 29000)

\* C4: when a required field sanitizes to "no value" the result is exactly
\* the degenerate record (zeros, upfront = max(systemCost - grant, 0),
\* unbounded payback, horizonYears + 1 zero points); when all three are
\* valid the guard does not fire.
C4_GuardGivesDegenerate ==
  /\ GuardCase => derived = Degenerate
  /\ MainBranch => /\ Gt(derived.annualHotWaterKwh, Zero)
                   /\ derived # Degenerate

\* a guard state with a positive upfront: kwhPerPerson empty
C4_Witness ==
  /\ form.kwhPerPerson = EmptyText
  /\ derived.upfront = Num(29000)
  /\ Len(derived.data) = 16

\* the raw texts C5 calls not a numeral
WhitespaceOnly(s) == \A i \in 1..Len(s) : s[i] \in WhiteSpace
HasLetter(s) ==
  \E i \in 1..Len(s) :
    s[i] \notin DigitSet \cup {",", ".", "-", "+", " ", "e", "E"}
ManySeparators(s) == Cardinality({i \in 1..Len(s) : s[i] \in {",", "."}}) > 1
NotNumeral(s) == WhitespaceOnly(s) \/ HasLetter(s) \/ ManySeparators(s)

\* C5: a required field whose raw text is empty, white space only, has
\* letters or has more than one decimal separator sanitizes to "no value",
\* and the result is the degenerate record.
C5_NotNumeralIsNoValue ==
  \A f \in Required :
    form[f].t = "str" /\ NotNumeral(form[f].s) =>
      HoldsNoValue(f) /\ derived = Degenerate

\* C6: every field of the derived results but paybackYears is finite.
C6_NoNonFiniteLeak ==
  /\ IsFin(derived.annualHotWaterKwh)
  /\ IsFin(derived.annualHotWaterCost)
  /\ IsFin(derived.annualSavings)
  /\ IsFin(derived.netAnnualSavings)
  /\ IsFin(derived.upfront)
  /\ IsFin(derived.tenYearRoi)
  /\ \A i \in 1..Len(derived.data) : IsFin(derived.data[i].value)

\* Scenario B: grant = systemCost = 29000, the other fields at defaults
ScenarioB ==
  /\ Sanitized("grant") = Num(29000)
  /\ \A f \in Fields \ {"grant"} : form[f] = defaultInputs[f]

\* C7: paybackYears is upfront / netAnnualSavings when netAnnualSavings is
\* positive (0 when upfront is 0, as in Scenario B) and the unbounded
\* sentinel when netAnnualSavings is not positive.
C7_PaybackRule ==
  LET net == derived.netAnnualSavings
      p == derived.paybackYears
  IN /\ Gt(net, Zero) /\ IsFin(net) => IsQuotient(p, derived.upfront, net)
     /\ Gt(net, Zero) /\ IsInf(net) => p = Zero
     /\ Gt(net, Zero) /\ derived.upfront = Zero => p = Zero
     /\ ~Gt(net, Zero) => p = Infinity
     /\ ScenarioB => Gt(net, Zero) /\ p = Zero

C7_Witness ==
  /\ ScenarioB
  /\ derived.upfront = Zero
  /\ derived.netAnnualSavings = Num(3861)
  /\ derived.paybackYears = Zero

\* (netAnnualSavings * 10 - upfront) / upfront, 0 when upfront is 0
RoiFormulaHolds ==
  LET up == derived.upfront
      gain == Sub(Mul(derived.netAnnualSavings, Num(10)), up)
  IN /\ up = Zero => derived.tenYearRoi = Zero
     /\ up # Zero =>
          IF IsFin(gain) THEN IsQuotient(derived.tenYearRoi, gain, up)
          ELSE derived.tenYearRoi = gain

\* tenYearRoi is the same whatever the projection horizon is
RoiSameForEveryHorizon ==
  \A h \in 0..MaxHorizon :
    Derive([form EXCEPT !.horizonYears = h]).tenYearRoi = derived.tenYearRoi

\* C8 (as stated): in every state tenYearRoi is 0 when upfront is 0 and
\* (netAnnualSavings * 10 - upfront) / upfront otherwise, for every horizon.
C8_RoiFormulaEverywhere == RoiFormulaHolds /\ RoiSameForEveryHorizon

\* C8 (amended): the formula holds whenever the main branch runs; in the
\* guard branch tenYearRoi is 0 whatever upfront is; in both branches the
\* value is the same for every horizonYears.
C8_RoiFormulaInMainBranch ==
  /\ MainBranch => RoiFormulaHolds
  /\ GuardCase => derived.tenYearRoi = Zero
  /\ RoiSameForEveryHorizon

\* main-branch states of both cases: upfront 0, and a positive upfront with
\* a non-zero return
C8_Witness ==
  /\ MainBranch
  /\ form.kwhPerPerson = NumV(Num(501))
  /\ Gt(derived.upfront, Zero)
  /\ derived.tenYearRoi # Zero

\* C9: upfront = max(systemCost - grant, 0) of the sanitized values and is
\* never negative; netAnnualSavings = max(annualSavings - maintenance, 0)
\* and is never negative.
C9_Floors ==
  LET x == Sub(derived.annualSavings, form.maintenance)
  IN /\ derived.upfront = ExpectedUpfront
     /\ Le(Zero, derived.upfront)
     /\ derived.netAnnualSavings = (IF Lt(x, Zero) THEN Zero ELSE x)
     /\ Le(Zero, derived.netAnnualSavings)

\* the grant exceeds the system cost, in the main branch
C9_Witness ==
  /\ MainBranch
  /\ Lt(CostOrZero, GrantOrZero)
  /\ derived.upfront = Zero

\* the number the raw text of the sanitizer specification parses to
RawNumber == StringToNumber(ReplaceComma(raw))

\* C10: a raw value that parses to a finite n sanitizes to
\* max(min, floor(n)) in an integer field and to max(0.1, n) in
\* electricityPrice: at least the field minimum, whole for integer fields,
\* never lowered otherwise; "1,95" gives 1.95.
C10_SanitizerResult ==
  sanField \in Fields /\ raw # <<>> /\ IsFin(RawNumber) =>
    LET n == RawNumber
        min == FieldMin(sanField)
    IN /\ IsFin(sanOut)
       /\ Le(min, sanOut)
       /\ sanField = "electricityPrice" =>
            sanOut = (IF Lt(n, min) THEN min ELSE n)
       /\ sanField \in IntFields =>
            /\ IsInteger(sanOut)
            /\ IF Lt(n, min) THEN sanOut = min
               ELSE IF IsInteger(n) THEN sanOut = n
               ELSE Le(sanOut, n) /\ Lt(n, Add(sanOut, Num(1)))
       /\ raw = <<"1", ",", "9", "5">> /\ sanField = "electricityPrice" =>
            sanOut = Fin(195, 0 - 2)

\* Scenario D
C10_Witness ==
  /\ raw = <<"1", ",", "9", "5">>
  /\ sanField = "electricityPrice"
  /\ sanOut = Fin(195, 0 - 2)

\* data has h + 1 points whose years are 0..h in order
HasShape(data, h) ==
  /\ Len(data) = h + 1
  /\ \A i \in 0..h : data[i + 1].year = i

\* C11: in every state, in the guard branch and in the main branch, data
\* has exactly horizonYears + 1 entries and data[i].year = i for every i in
\* 0..horizonYears; the same holds of the result computed for any other
\* horizon.
C11_SeriesShape ==
  /\ HasShape(derived.data, form.horizonYears)
  /\ \A h \in 0..MaxHorizon :
       HasShape(Derive([form EXCEPT !.horizonYears = h]).data, h)

\* a guard-branch state whose series has the 16 points of years 0..15
C11_Witness ==
  /\ GuardCase
  /\ form.householdSize = defaultInputs.householdSize
  /\ form.electricityPrice = EmptyText
  /\ Len(derived.data) = 16
  /\ derived.data[16].year = 15

\* the quotient q = n / d * 10^e compared with a decimal x
QLt(q, x) == IsFin(q) /\ Lt(Fin(q.n, q.e), Fin(x.n * q.d, x.e))
QGe(q, x) == IsFin(q) /\ ~QLt(q, x)

\* C12: with the default inputs (household 3, price 1.95, cost 29000, grant
\* 0, maintenance 0, savings ratio 0.66, 1000 kWh per person, horizon 15),
\* which the form holds before any event, the result is annualHotWaterKwh
\* 3000, annualHotWaterCost 5850, annualSavings 3861, netAnnualSavings 3861,
\* upfront 29000, paybackYears 29000/3861 (7.51 to two decimals), data[0] =
\* -29000, data[1] = -25139, and tenYearRoi 0.331 to three decimals, shown
\* as 33%.
C12_ScenarioA ==
  form = defaultInputs =>
       /\ derived.annualHotWaterKwh = Num(3000)
       /\ derived.annualHotWaterCost = Num(5850)
       /\ derived.annualSavings = Num(3861)
       /\ derived.netAnnualSavings = Num(3861)
       /\ derived.upfront = Num(29000)
       /\ IsQuotient(derived.paybackYears, Num(29000), Num(3861))
       /\ QGe(derived.paybackYears, Fin(7505, 0 - 3))
       /\ QLt(derived.paybackYears, Fin(7515, 0 - 3))
       /\ Point(0).value = Num(0 - 29000)
       /\ Point(1).value = Num(0 - 25139)
       /\ IsQuotient(derived.tenYearRoi, Num(9610), Num(29000))
       /\ QGe(derived.tenYearRoi, Fin(3305, 0 - 4))
       /\ QLt(derived.tenYearRoi, Fin(3315, 0 - 4))
       /\ RoiPercent(derived.tenYearRoi) = Num(33)

\* the form holds the default inputs and no field has been blurred
C12_Witness ==
  /\ form = defaultInputs
  /\ last = NoEvent
  /\ MainBranch
  /\ derived.annualSavings = Num(3861)

====
